---- MODULE Spec2Model ----
(***************************************************************************)
(* The worker pool of src/src/ThreadPool.cpp: a fixed set of worker        *)
(* threads consuming a std::queue of closures under one mutex and one      *)
(* condition variable; submit() wraps each callable in a packaged_task and *)
(* returns its future; the destructor sets stop, broadcasts and joins.     *)
(***************************************************************************)
EXTENDS Integers, Sequences, FiniteSets, TLC

\* ------------------------------------------------------------------ bounds
MaxWorkers == 2      \* num_threads ranges over 0..MaxWorkers
MaxTasks == 2        \* calls of submit over the life of the pool

WorkerIds == 1..MaxWorkers
TaskIds == 1..MaxTasks

\* ------------------------------------------------------------------ state
VARIABLES
    num_threads,   \* constructor argument: number of workers created
    stop,          \* bool stop
    tasks,         \* std::queue<std::function<void()>>: closures, by packaged_task id
    queue_mutex,   \* the thread holding queue_mutex, or NoThread
    wpc,           \* each worker's position in its run loop
    task,          \* each worker's local `task` (0: empty std::function)
    spc,           \* the position of the caller of each submit call
    dpc,           \* the position of the thread running ~ThreadPool
    joined,        \* number of workers the destructor has joined
    body,          \* what the callable bound into each packaged_task does
    handle,        \* shared state of each packaged_task/future pair
    got,           \* what future.get() returned to the caller, per task
    enqOrder,      \* history: ids in the order they were emplaced
    deqOrder,      \* history: ids in the order they were popped
    runs,          \* history: number of times each task body was invoked
    notified,      \* history: notify_one calls issued by the submit of each task
    \* src/src/ConsumerProducer.cpp, a program of its own:
    data_queue,    \* std::queue<std::string>: the packets, by their number i
    mtx,           \* the thread holding mtx, or NoThread
    finished,      \* bool finished
    ppc,           \* the producer's position
    pi,            \* the producer's loop variable i
    cpc,           \* each consumer's position
    data,          \* each consumer's local `data` (-1: none)
    popOrder,      \* history: packets in the order they were popped
    consumed       \* history: number of packets each consumer processed

vars == <<num_threads, stop, tasks, queue_mutex, wpc, task, spc, dpc,
          joined, body, handle, got, enqOrder, deqOrder, runs, notified>>

poolVars == <<num_threads, stop, tasks, queue_mutex>>
workerVars == <<wpc, task>>
submitVars == <<spc, body>>
dtorVars == <<dpc, joined>>
histVars == <<enqOrder, deqOrder, runs, notified>>

\* The state of the producer/consumer program.
cpVars == <<data_queue, mtx, finished, ppc, pi, cpc, data, popOrder, consumed>>

\* Thread identities, as the owner of queue_mutex.
NoThread == <<"none", 0>>
WorkerThread(w) == <<"worker", w>>
SubmitThread(t) == <<"submit", t>>
DtorThread == <<"dtor", 0>>

\* The contents of a future's shared state.
Absent == [kind |-> "absent", of |-> 0]
Pending == [kind |-> "pending", of |-> 0]
Value(t) == [kind |-> "value", of |-> t]
Failure(t) == [kind |-> "failure", of |-> t]
BrokenPromise == [kind |-> "broken_promise", of |-> 0]
NotGot == [kind |-> "none", of |-> 0]

Bodies == {"returns", "throws"}

\* for (int i = 0; i < 5; ++i): the number of packets the producer pushes.
NumItems == 5
\* std::thread cons(consumer); std::thread cons2(consumer);
NumConsumers == 2
ConsumerIds == 1..NumConsumers
ProducerThread == <<"producer", 0>>
ConsumerThread(c) == <<"consumer", c>>

\* State of the producer/consumer program when main has started its three
\* threads: the globals as initialised, the producer before its first
\* push, each consumer at the top of its loop.
CpInit ==
    /\ data_queue = <<>>
    /\ mtx = NoThread
    /\ finished = FALSE
    /\ ppc = "lock"
    /\ pi = 0
    /\ cpc = [c \in ConsumerIds |-> "lock"]
    /\ data = [c \in ConsumerIds |-> -1]
    /\ popOrder = <<>>
    /\ consumed = [c \in ConsumerIds |-> 0]

\* ------------------------------------------------------------------ Init
\* State after ThreadPool(num_threads): stop false, queue empty, each of the
\* num_threads workers at the top of its loop.
Init ==
    /\ num_threads \in 0..MaxWorkers
    /\ stop = FALSE
    /\ tasks = <<>>
    /\ queue_mutex = NoThread
    /\ wpc = [w \in WorkerIds |-> IF w <= num_threads THEN "lock" ELSE "unused"]
    /\ task = [w \in WorkerIds |-> 0]
    /\ spc = [t \in TaskIds |-> "idle"]
    /\ dpc = "alive"
    /\ joined = 0
    /\ body = [t \in TaskIds |-> "none"]
    /\ handle = [t \in TaskIds |-> Absent]
    /\ got = [t \in TaskIds |-> NotGot]
    /\ enqOrder = <<>>
    /\ deqOrder = <<>>
    /\ runs = [t \in TaskIds |-> 0]
    /\ notified = [t \in TaskIds |-> 0]
    /\ CpInit

\* ------------------------------------------------------------------ worker
\* Mutation of WaitPredicate: the wait looks at the queue only.
WaitIgnoresStop == tasks # <<>>

\* The predicate of condition.wait.
WaitPredicate == stop \/ tasks # <<>>

\* The exit test of the run loop.
ExitCondition == stop /\ tasks = <<>>

\* Mutation of Acquire: the thread goes on without owning the mutex.
AcquireNothing(th) == NoThread

\* The owner of queue_mutex after thread th has locked it.
Acquire(th) == th

\* std::unique_lock<std::mutex> lock(this->queue_mutex)
WorkerLock(w) ==
    /\ wpc[w] = "lock"
    /\ queue_mutex = NoThread
    /\ queue_mutex' = Acquire(WorkerThread(w))
    /\ wpc' = [wpc EXCEPT ![w] = "wait"]
    /\ UNCHANGED <<num_threads, stop, tasks, task, submitVars, dtorVars,
                   handle, got, histVars>>

\* condition.wait(lock, pred) with pred false: the lock is released and the
\* worker blocks.
WorkerBlock(w) ==
    /\ wpc[w] = "wait"
    /\ queue_mutex = WorkerThread(w)
    /\ ~WaitPredicate
    /\ wpc' = [wpc EXCEPT ![w] = "blocked"]
    /\ queue_mutex' = NoThread
    /\ UNCHANGED <<num_threads, stop, tasks, task, submitVars, dtorVars,
                   handle, got, histVars>>

\* A blocked wait may return without a notification (spurious wake-up); the
\* waiter then reacquires the lock and tests the predicate again.
SpuriousWake(w) ==
    /\ wpc[w] = "blocked"
    /\ wpc' = [wpc EXCEPT ![w] = "relock"]
    /\ UNCHANGED <<poolVars, task, submitVars, dtorVars, handle, got, histVars>>

\* A woken waiter reacquires the lock inside condition.wait.
WorkerRelock(w) ==
    /\ wpc[w] = "relock"
    /\ queue_mutex = NoThread
    /\ queue_mutex' = Acquire(WorkerThread(w))
    /\ wpc' = [wpc EXCEPT ![w] = "wait"]
    /\ UNCHANGED <<num_threads, stop, tasks, task, submitVars, dtorVars,
                   handle, got, histVars>>

\* Mutation of Front: the worker takes the newest closure (back()).
FrontTakesBack(q) == q[Len(q)]

\* The closure the worker takes: tasks.front().
Front(q) == Head(q)

\* Mutation of Pop: the closure is read but not removed.
PopKeepsHead(q) == q

\* The queue the worker leaves: tasks.pop().
Pop(q) == Tail(q)

\* condition.wait returns with pred true, then
\* if (stop && tasks.empty()) return;  -- the lock is released on the way out
WorkerExit(w) ==
    /\ wpc[w] = "wait"
    /\ queue_mutex = WorkerThread(w)
    /\ WaitPredicate
    /\ ExitCondition
    /\ wpc' = [wpc EXCEPT ![w] = "exited"]
    /\ queue_mutex' = NoThread
    /\ UNCHANGED <<num_threads, stop, tasks, task, submitVars, dtorVars,
                   handle, got, histVars>>

\* Mutation of HolderAfterDequeue: task() is called inside the scope of
\* the lock.
DequeueKeepsLock(w) == WorkerThread(w)

\* The owner of queue_mutex when the worker leaves the block that holds
\* `lock`, before task(): nobody.
HolderAfterDequeue(w) == NoThread

\* condition.wait returns with pred true, the exit test fails, then
\* task = std::move(tasks.front()); tasks.pop();  } -- releases the lock
WorkerDequeue(w) ==
    /\ wpc[w] = "wait"
    /\ queue_mutex = WorkerThread(w)
    /\ WaitPredicate
    /\ ~ExitCondition
    /\ task' = [task EXCEPT ![w] = Front(tasks)]
    /\ tasks' = Pop(tasks)
    /\ deqOrder' = Append(deqOrder, Front(tasks))
    /\ queue_mutex' = HolderAfterDequeue(w)
    /\ wpc' = [wpc EXCEPT ![w] = "run"]
    /\ UNCHANGED <<num_threads, stop, submitVars, dtorVars, handle, got,
                   enqOrder, runs, notified>>

\* What invoking packaged_task t stores in its shared state: the value the
\* callable returns, or the exception it throws (caught by packaged_task).
Outcome(t) == IF body[t] = "throws" THEN Failure(t) ELSE Value(t)

\* The shared state the closure [task](){ (*task)(); } writes: that of the
\* packaged_task it captured.
Target(t) == t

\* Mutation of AfterTask: the exception of a throwing task leaves the
\* worker's lambda and ends the thread.
AfterTaskEscapes(t) == IF body[t] = "throws" THEN "exited" ELSE "lock"

\* Where the worker continues after task() returns: the top of while (true).
\* packaged_task keeps the exception, so this is so for every task.
AfterTask(t) == "lock"

\* task();  -- runs the closure, outside the lock
WorkerRun(w) ==
    /\ wpc[w] = "run"
    /\ handle' = [handle EXCEPT ![Target(task[w])] = Outcome(task[w])]
    /\ runs' = [runs EXCEPT ![task[w]] = @ + 1]
    /\ task' = [task EXCEPT ![w] = 0]
    /\ wpc' = [wpc EXCEPT ![w] = AfterTask(task[w])]
    /\ UNCHANGED <<poolVars, submitVars, dtorVars, got, enqOrder, deqOrder,
                   notified>>

\* ------------------------------------------------------------------ submit
\* Each call of submit is made by a caller thread of its own; calls are
\* numbered in the order they take the lock. A caller may enter submit as
\* long as the pool object exists.

\* The workers blocked inside condition.wait.
Waiters == {w \in WorkerIds : wpc[w] = "blocked"}

\* auto task = make_shared<packaged_task<R()>>(bind(f, args...));
\* future<R> res = task->get_future();
\* { std::unique_lock<std::mutex> lock(queue_mutex);
SubmitBegin(t, b) ==
    /\ spc[t] = "idle"
    /\ \A u \in TaskIds : u < t => spc[u] # "idle"
    /\ dpc # "destroyed"
    /\ queue_mutex = NoThread
    /\ body' = [body EXCEPT ![t] = b]
    /\ handle' = [handle EXCEPT ![t] = Pending]
    /\ queue_mutex' = Acquire(SubmitThread(t))
    /\ spc' = [spc EXCEPT ![t] = "check"]
    /\ UNCHANGED <<num_threads, stop, tasks, workerVars, dtorVars, got,
                   histVars>>

\* Mutation of RejectCondition: submit does not test the flag.
RejectNever == FALSE

\* if (stop) throw std::runtime_error("submit on stopped ThreadPool");
RejectCondition == stop

\* Mutation of AfterUnwind: the shared state outlives the rejected call.
UnwindLeaks(h) == h

\* The shared state after the throw has unwound submit: `task` and `res`,
\* its only owners, are locals of the call, so it is gone.
AfterUnwind(h) == Absent

\* The throw unwinds submit: the lock is released, and the packaged_task and
\* its future, both local to the call, are destroyed.
SubmitReject(t) ==
    /\ spc[t] = "check"
    /\ queue_mutex = SubmitThread(t)
    /\ RejectCondition
    /\ queue_mutex' = NoThread
    /\ handle' = [handle EXCEPT ![t] = AfterUnwind(handle[t])]
    /\ spc' = [spc EXCEPT ![t] = "thrown"]
    /\ UNCHANGED <<num_threads, stop, tasks, workerVars, body, dtorVars, got,
                   histVars>>

\* Mutation of Emplace: the closure is put at the head of the queue.
EmplaceAtHead(q, t) == <<t>> \o q

\* The queue after tasks.emplace(closure of t).
Emplace(q, t) == Append(q, t)

\* tasks.emplace([task](){ (*task)(); });  } -- releases the lock
SubmitEnqueue(t) ==
    /\ spc[t] = "check"
    /\ queue_mutex = SubmitThread(t)
    /\ ~RejectCondition
    /\ tasks' = Emplace(tasks, t)
    /\ enqOrder' = Append(enqOrder, t)
    /\ queue_mutex' = NoThread
    /\ spc' = [spc EXCEPT ![t] = "notify"]
    /\ UNCHANGED <<num_threads, stop, workerVars, body, dtorVars, handle, got,
                   deqOrder, runs, notified>>

\* Mutation of NotifyOneWakes: submit broadcasts.
NotifyOneBroadcasts == {Waiters}

\* Mutation of NotifyOneWakes: the signal of submit reaches no waiter.
NotifyOneWakesNobody == {{}}

\* The sets of waiters condition.notify_one() may wake: any single waiter,
\* or nobody when no thread waits.
NotifyOneWakes == IF Waiters = {} THEN {{}} ELSE {{w} : w \in Waiters}

\* condition.notify_one(); return res;  -- wakes one waiter, if there is one
SubmitNotify(t) ==
    /\ spc[t] = "notify"
    /\ \E W \in NotifyOneWakes :
         wpc' = [w \in WorkerIds |-> IF w \in W THEN "relock" ELSE wpc[w]]
    /\ notified' = [notified EXCEPT ![t] = @ + 1]
    /\ spc' = [spc EXCEPT ![t] = "returned"]
    /\ UNCHANGED <<poolVars, task, body, dtorVars, handle, got, enqOrder,
                   deqOrder, runs>>

\* ------------------------------------------------------------------ future
\* The future of t is in its caller's hands: submit returned it.
Returned(t) == spc[t] = "returned"

\* The shared state is ready: a value or an exception has been stored.
Ready(t) == handle[t].kind \in {"value", "failure", "broken_promise"}

\* future.get(): blocks until the shared state is ready, then yields what
\* it holds (the value, or the stored exception rethrown).
Get(t) ==
    /\ Returned(t)
    /\ got[t] = NotGot
    /\ Ready(t)
    /\ got' = [got EXCEPT ![t] = handle[t]]
    /\ UNCHANGED <<poolVars, workerVars, submitVars, dtorVars, handle,
                   histVars>>

\* ------------------------------------------------------------------ ~ThreadPool
\* { std::unique_lock<std::mutex> lock(queue_mutex);
DtorLock ==
    /\ dpc = "alive"
    /\ queue_mutex = NoThread
    /\ queue_mutex' = Acquire(DtorThread)
    /\ dpc' = "set_stop"
    /\ UNCHANGED <<num_threads, stop, tasks, workerVars, submitVars, joined,
                   handle, got, histVars>>

\* stop = true; }  -- releases the lock
DtorSetStop ==
    /\ dpc = "set_stop"
    /\ queue_mutex = DtorThread
    /\ stop' = TRUE
    /\ queue_mutex' = NoThread
    /\ dpc' = "notify_all"
    /\ UNCHANGED <<num_threads, tasks, workerVars, submitVars, joined,
                   handle, got, histVars>>

\* Mutation of NotifyAllWakes: the destructor signals one waiter only.
NotifyAllWakesOne == IF Waiters = {} THEN {} ELSE {CHOOSE w \in Waiters : TRUE}

\* The waiters condition.notify_all() wakes: all of them.
NotifyAllWakes == Waiters

\* condition.notify_all();  -- every waiter is woken
DtorNotifyAll ==
    /\ dpc = "notify_all"
    /\ wpc' = [w \in WorkerIds |->
                 IF w \in NotifyAllWakes THEN "relock" ELSE wpc[w]]
    /\ dpc' = "join"
    /\ UNCHANGED <<poolVars, task, submitVars, joined, handle, got, histVars>>

\* Mutation of JoinReturns: the destructor does not wait for the thread.
JoinReturnsAtOnce(w) == TRUE

\* worker.join() returns once the worker's lambda has returned.
JoinReturns(w) == wpc[w] = "exited"

\* for (std::thread &worker : workers) worker.join();  -- one iteration
DtorJoin ==
    /\ dpc = "join"
    /\ joined < num_threads
    /\ JoinReturns(joined + 1)
    /\ joined' = joined + 1
    /\ UNCHANGED <<poolVars, workerVars, submitVars, dpc, handle, got,
                   histVars>>

\* The loop over workers ends: the body of the destructor is done.
DtorJoined ==
    /\ dpc = "join"
    /\ joined = num_threads
    /\ dpc' = "joined"
    /\ UNCHANGED <<poolVars, workerVars, submitVars, joined, handle, got,
                   histVars>>

\* The shared state of a packaged_task destroyed with the queue: a task
\* that was never invoked stores broken_promise in it.
Abandon(h) == IF h.kind = "pending" THEN BrokenPromise ELSE h

\* After the body the members are destroyed; `tasks` goes with every
\* closure still in it. Callers are out of submit by then.
DtorDestroyMembers ==
    /\ dpc = "joined"
    /\ \A t \in TaskIds : spc[t] \in {"idle", "returned", "thrown"}
    /\ handle' = [t \in TaskIds |->
                    IF \E i \in 1..Len(tasks) : tasks[i] = t
                      THEN Abandon(handle[t]) ELSE handle[t]]
    /\ tasks' = <<>>
    /\ dpc' = "destroyed"
    /\ UNCHANGED <<num_threads, stop, queue_mutex, workerVars, submitVars,
                   joined, got, histVars>>

\* ------------------------------------------------------------------ Next
Worker(w) ==
    \/ WorkerLock(w)
    \/ WorkerBlock(w)
    \/ WorkerRelock(w)
    \/ WorkerExit(w)
    \/ WorkerDequeue(w)
    \/ WorkerRun(w)

Submit(t) ==
    \/ \E b \in Bodies : SubmitBegin(t, b)
    \/ SubmitReject(t)
    \/ SubmitEnqueue(t)
    \/ SubmitNotify(t)

Dtor ==
    \/ DtorLock
    \/ DtorSetStop
    \/ DtorNotifyAll
    \/ DtorJoin
    \/ DtorJoined
    \/ DtorDestroyMembers

PoolStep ==
    \/ \E w \in WorkerIds : Worker(w)
    \/ \E w \in WorkerIds : SpuriousWake(w)
    \/ \E t \in TaskIds : Submit(t)
    \/ \E t \in TaskIds : Get(t)
    \/ Dtor

\* The pool's program: the producer/consumer program is another process
\* and takes no step in it.
Next == PoolStep /\ UNCHANGED cpVars

Spec == Init /\ [][Next]_<<vars, cpVars>>

\* The steps a caller inside submit still has to take, and those of the
\* thread inside the destructor.
SubmitRest(t) == SubmitReject(t) \/ SubmitEnqueue(t) \/ SubmitNotify(t)
DtorRest ==
    DtorSetStop \/ DtorNotifyAll \/ DtorJoin \/ DtorJoined \/ DtorDestroyMembers

\* Fair scheduling: a thread that can take its next step eventually takes
\* it; task bodies terminate (WorkerRun). Nothing obliges a caller to
\* submit, to call get or to destroy the pool, nor a wait to wake
\* spuriously.
Fairness ==
    /\ \A w \in WorkerIds : WF_vars(Worker(w))
    /\ \A t \in TaskIds : WF_vars(SubmitRest(t))
    /\ WF_vars(DtorRest)

FairSpec == Spec /\ Fairness

(***************************************************************************)
(* The producer/consumer program, src/src/ConsumerProducer.cpp: one        *)
(* producer and two consumers share data_queue, mtx, cv and finished.      *)
(* The sleeps only delay a thread and the output does not touch the        *)
(* shared state, so each is part of the step it precedes or follows.       *)
(***************************************************************************)

\* Consumers blocked inside cv.wait.
CpWaiters == {c \in ConsumerIds : cpc[c] = "blocked"}

\* The consumer's wait predicate:
\* [] { return !data_queue.empty() || finished; }
CpWaitPredicate == data_queue # <<>> \/ finished

\* else if (finished) break; reached only when the queue is empty.
CpExitWhenFinished == finished
CpExitCondition == data_queue = <<>> /\ finished

\* The consumers cv.notify_all() wakes.
CpNotifyAllWakes == CpWaiters

\* The sets of consumers cv.notify_one() may wake.
CpNotifyOneWakes == IF CpWaiters = {} THEN {{}} ELSE {{c} : c \in CpWaiters}

\* std::lock_guard<std::mutex> lock(mtx); of the push.
ProducerLock ==
    /\ ppc = "lock"
    /\ mtx = NoThread
    /\ mtx' = ProducerThread
    /\ ppc' = "push"
    /\ UNCHANGED <<data_queue, finished, pi, cpc, data, popOrder, consumed>>

\* data_queue.push(data); then the lock_guard's scope ends.
ProducerPush ==
    /\ ppc = "push"
    /\ data_queue' = Append(data_queue, pi)
    /\ mtx' = NoThread
    /\ ppc' = "notify"
    /\ UNCHANGED <<finished, pi, cpc, data, popOrder, consumed>>

\* cv.notify_one(); ++i; i < 5
ProducerNotify ==
    /\ ppc = "notify"
    /\ \E W \in CpNotifyOneWakes :
          cpc' = [c \in ConsumerIds |-> IF c \in W THEN "relock" ELSE cpc[c]]
    /\ pi' = pi + 1
    /\ ppc' = IF pi + 1 < NumItems THEN "lock" ELSE "finish_lock"
    /\ UNCHANGED <<data_queue, mtx, finished, data, popOrder, consumed>>

\* std::lock_guard<std::mutex> lock(mtx); of the end of production.
ProducerFinishLock ==
    /\ ppc = "finish_lock"
    /\ mtx = NoThread
    /\ mtx' = ProducerThread
    /\ ppc' = "set_finished"
    /\ UNCHANGED <<data_queue, finished, pi, cpc, data, popOrder, consumed>>

\* finished = true; then the lock_guard's scope ends.
ProducerSetFinished ==
    /\ ppc = "set_finished"
    /\ finished' = TRUE
    /\ mtx' = NoThread
    /\ ppc' = "notify_all"
    /\ UNCHANGED <<data_queue, pi, cpc, data, popOrder, consumed>>

\* cv.notify_all(); and producer returns.
ProducerNotifyAll ==
    /\ ppc = "notify_all"
    /\ cpc' = [c \in ConsumerIds |->
                  IF c \in CpNotifyAllWakes THEN "relock" ELSE cpc[c]]
    /\ ppc' = "done"
    /\ UNCHANGED <<data_queue, mtx, finished, pi, data, popOrder, consumed>>

Producer ==
    \/ ProducerLock
    \/ ProducerPush
    \/ ProducerNotify
    \/ ProducerFinishLock
    \/ ProducerSetFinished
    \/ ProducerNotifyAll

\* std::unique_lock<std::mutex> lock(mtx);
ConsumerLock(c) ==
    /\ cpc[c] = "lock"
    /\ mtx = NoThread
    /\ mtx' = ConsumerThread(c)
    /\ cpc' = [cpc EXCEPT ![c] = "wait"]
    /\ UNCHANGED <<data_queue, finished, ppc, pi, data, popOrder, consumed>>

\* cv.wait finds its predicate false: releases mtx and blocks.
ConsumerBlock(c) ==
    /\ cpc[c] = "wait"
    /\ ~CpWaitPredicate
    /\ mtx' = NoThread
    /\ cpc' = [cpc EXCEPT ![c] = "blocked"]
    /\ UNCHANGED <<data_queue, finished, ppc, pi, data, popOrder, consumed>>

\* A condition variable may wake a waiter without a notification.
CpSpuriousWake(c) ==
    /\ cpc[c] = "blocked"
    /\ cpc' = [cpc EXCEPT ![c] = "relock"]
    /\ UNCHANGED <<data_queue, mtx, finished, ppc, pi, data, popOrder, consumed>>

\* A woken consumer takes mtx again and tests the predicate again.
ConsumerRelock(c) ==
    /\ cpc[c] = "relock"
    /\ mtx = NoThread
    /\ mtx' = ConsumerThread(c)
    /\ cpc' = [cpc EXCEPT ![c] = "wait"]
    /\ UNCHANGED <<data_queue, finished, ppc, pi, data, popOrder, consumed>>

\* cv.wait returns; if (!data_queue.empty()): front, pop, lock.unlock().
ConsumerPop(c) ==
    /\ cpc[c] = "wait"
    /\ CpWaitPredicate
    /\ data_queue # <<>>
    /\ data' = [data EXCEPT ![c] = Head(data_queue)]
    /\ data_queue' = Tail(data_queue)
    /\ popOrder' = Append(popOrder, Head(data_queue))
    /\ mtx' = NoThread
    /\ cpc' = [cpc EXCEPT ![c] = "process"]
    /\ UNCHANGED <<finished, ppc, pi, consumed>>

\* The consumer processes its packet outside the lock and loops.
ConsumerProcess(c) ==
    /\ cpc[c] = "process"
    /\ consumed' = [consumed EXCEPT ![c] = @ + 1]
    /\ data' = [data EXCEPT ![c] = -1]
    /\ cpc' = [cpc EXCEPT ![c] = "lock"]
    /\ UNCHANGED <<data_queue, mtx, finished, ppc, pi, popOrder>>

\* cv.wait returns; else if (finished) break; the unique_lock leaves scope.
ConsumerExit(c) ==
    /\ cpc[c] = "wait"
    /\ CpWaitPredicate
    /\ CpExitCondition
    /\ mtx' = NoThread
    /\ cpc' = [cpc EXCEPT ![c] = "exited"]
    /\ UNCHANGED <<data_queue, finished, ppc, pi, data, popOrder, consumed>>

Consumer(c) ==
    \/ ConsumerLock(c)
    \/ ConsumerBlock(c)
    \/ ConsumerRelock(c)
    \/ ConsumerPop(c)
    \/ ConsumerProcess(c)
    \/ ConsumerExit(c)

CpStep ==
    \/ Producer
    \/ \E c \in ConsumerIds : Consumer(c)
    \/ \E c \in ConsumerIds : CpSpuriousWake(c)

\* The producer/consumer program: the pool is another process and takes
\* no step in it.
CpNext == CpStep /\ UNCHANGED vars

CpSpec == Init /\ [][CpNext]_<<vars, cpVars>>

\* The steps in which a thread takes mtx.
ProducerAcquire == ProducerLock \/ ProducerFinishLock
ConsumerAcquire(c) == ConsumerLock(c) \/ ConsumerRelock(c)

\* Fair scheduling: every thread that can take a step eventually takes
\* one, and a thread that finds mtx free again and again eventually gets
\* it (other threads taking and releasing mtx in turn do not starve it).
\* A spurious wake-up is never owed.
CpFairness ==
    /\ WF_cpVars(Producer)
    /\ SF_cpVars(ProducerAcquire)
    /\ \A c \in ConsumerIds : WF_cpVars(Consumer(c))
    /\ \A c \in ConsumerIds : SF_cpVars(ConsumerAcquire(c))

CpFairSpec == CpSpec /\ CpFairness

\* ------------------------------------------------------------------ task states
InQueue(t) == \E i \in 1..Len(tasks) : tasks[i] = t
Occurrences(q, t) == Cardinality({i \in 1..Len(q) : q[i] = t})

\* submit accepted the task: it passed the test of stop and emplaced it.
Accepted(t) == spc[t] \in {"notify", "returned"}
\* submit threw the shutdown error.
Rejected(t) == spc[t] = "thrown"

Queued(t) == InQueue(t)
Running(t) == \E w \in WorkerIds : wpc[w] = "run" /\ task[w] = t
Finished(t) == runs[t] >= 1 /\ ~Running(t)

\* Pool states: all workers terminated and joined.
Stopped == dpc \in {"joined", "destroyed"}
TeardownReturned == dpc = "destroyed"

\* ------------------------------------------------------------------ properties

\* C1: in a pool with at least one worker, under every interleaving, no task
\* is popped by two workers or popped twice, no task body is invoked twice,
\* only accepted tasks are invoked, and an accepted task whose handle is
\* ready was popped exactly once and invoked exactly once (so when all M
\* handles are ready there were exactly M executions).
C1_ExactlyOnce ==
    num_threads >= 1 =>
      /\ \A t \in TaskIds :
           /\ runs[t] <= 1
           /\ Occurrences(deqOrder, t) <= 1
           /\ Occurrences(deqOrder, t) + Occurrences(tasks, t) <= 1
           /\ runs[t] >= 1 => Accepted(t)
           /\ Accepted(t) /\ Ready(t) =>
                runs[t] = 1 /\ Occurrences(deqOrder, t) = 1
      /\ \A w1, w2 \in WorkerIds :
           wpc[w1] = "run" /\ wpc[w2] = "run" /\ w1 # w2 => task[w1] # task[w2]

\* Two workers, every submission accepted, every handle ready and read.
C1_Witness ==
    /\ num_threads = MaxWorkers
    /\ \A t \in TaskIds : Accepted(t) /\ Ready(t) /\ got[t] # NotGot
    /\ \A t \in TaskIds : runs[t] = 1

\* C2: when teardown has returned, every task that submit accepted has been
\* executed to completion; none was discarded.
C2_ShutdownDrains ==
    TeardownReturned => \A t \in TaskIds : Accepted(t) => Finished(t)

\* C3: a submit that observes stop set throws the shutdown error, leaves
\* the queue unchanged and issues no wake signal; its task is never in the
\* queue, never popped and never invoked, in any later state.
C3_RejectStep ==
    \A t \in TaskIds :
      spc[t] = "check" /\ stop /\ spc'[t] # "check" =>
        /\ spc'[t] = "thrown"
        /\ tasks' = tasks
        /\ wpc' = wpc
        /\ notified' = notified

C3_RejectedNeverRuns ==
    \A t \in TaskIds :
      Rejected(t) =>
        /\ ~InQueue(t)
        /\ ~Running(t)
        /\ Occurrences(enqOrder, t) = 0
        /\ Occurrences(deqOrder, t) = 0
        /\ runs[t] = 0
        /\ notified[t] = 0

C3_RejectAfterShutdown ==
    /\ []C3_RejectedNeverRuns
    /\ [][C3_RejectStep]_vars
    /\ [][\A t \in TaskIds : Rejected(t) => Rejected(t)']_vars

\* A submission was rejected, another one ran, and the pool is stopped.
C3_Witness ==
    /\ Stopped
    /\ \E t \in TaskIds : Rejected(t)
    /\ \E t \in TaskIds : runs[t] = 1

\* C4: with submit racing shutdown, each submit is either rejected or its
\* task is enqueued and executed before the last worker exits; whenever the
\* pool is Stopped (all workers terminated) the queue is empty.
C4_NoDropOnRace ==
    dpc = "joined" =>
      /\ tasks = <<>>
      /\ \A t \in TaskIds :
           spc[t] \in {"notify", "returned", "thrown"} =>
             (Rejected(t) /\ runs[t] = 0) \/ (Accepted(t) /\ Finished(t))

\* C5: under fair scheduling, in every pool the constructor creates, every
\* accepted task is eventually executed to completion.
C5_AcceptedEventuallyRuns ==
    \A t \in TaskIds : Accepted(t) ~> Finished(t)

\* C6: a task whose body throws leaves its own handle Failed with the
\* failure captured and changes nothing else: the worker that ran it is
\* back at the top of its loop, the queue, the flag and every other handle
\* are as before; and under fair scheduling, once a task has failed, the
\* pool reaches a state where every accepted task has finished with its own
\* outcome (so each of them completes).
C6_FailureStep ==
    \A w \in WorkerIds :
      wpc[w] = "run" /\ body[task[w]] = "throws" /\ wpc'[w] # "run" =>
        /\ handle'[task[w]] = Failure(task[w])
        /\ wpc'[w] = "lock"
        /\ \A v \in WorkerIds : v # w => wpc'[v] = wpc[v]
        /\ tasks' = tasks
        /\ stop' = stop
        /\ \A u \in TaskIds : u # task[w] => handle'[u] = handle[u]

SomeTaskFailed == \E t \in TaskIds : handle[t].kind = "failure"

AcceptedAllFinished ==
    \A u \in TaskIds : Accepted(u) => Finished(u) /\ handle[u] = Outcome(u)

C6_FailureIsLocal ==
    /\ [][C6_FailureStep]_vars
    /\ SomeTaskFailed ~> AcceptedAllFinished

\* The first task threw, and afterwards the second one, which returns
\* normally, was run by the same single worker.
C6_Witness ==
    /\ num_threads = 1
    /\ deqOrder = <<1, 2>>
    /\ handle[1] = Failure(1)
    /\ handle[2] = Value(2)

\* C7: for every number of workers, tasks leave the queue in the order
\* they entered it: the sequence of pops is a prefix of the sequence of
\* emplaces.
C7_FifoDequeue ==
    /\ Len(deqOrder) <= Len(enqOrder)
    /\ \A i \in 1..Len(deqOrder) : deqOrder[i] = enqOrder[i]

\* Two workers have popped one task each and run them at the same time.
C7_Witness ==
    /\ num_threads = 2
    /\ Len(deqOrder) >= 2
    /\ Running(deqOrder[1])
    /\ Running(deqOrder[2])

\* C8: with one worker, tasks run one after the other in submission order:
\* a task emplaced after another is not popped, its handle is not ready and
\* get() on it has not returned, until the earlier one has finished.
C8_SingleWorkerSerial ==
    num_threads = 1 =>
      \A i, j \in 1..Len(enqOrder) :
        i < j =>
          /\ Occurrences(deqOrder, enqOrder[j]) > 0 => Finished(enqOrder[i])
          /\ Ready(enqOrder[j]) => Finished(enqOrder[i])
          /\ got[enqOrder[j]] # NotGot => Finished(enqOrder[i])

\* One worker is inside task A while task B, submitted later, waits in the
\* queue.
C8_Witness ==
    /\ num_threads = 1
    /\ Len(enqOrder) >= 2
    /\ Running(enqOrder[1])
    /\ tasks = <<enqOrder[2]>>

\* C9: whenever get() on a handle has returned, the paired task is neither
\* queued nor running: it was invoked and its value or failure recorded.
C9_GetAfterCompletion ==
    \A t \in TaskIds :
      got[t] # NotGot =>
        /\ ~Queued(t)
        /\ ~Running(t)
        /\ Finished(t)
        /\ got[t] \in {Value(t), Failure(t)}

\* C10: a handle starts pending and changes at most once, to the value or
\* failure its own task produced; get() on the handle of task t yields the
\* outcome of task t.
C10_HandleStep ==
    \A t \in TaskIds :
      handle[t].kind # "absent" /\ handle'[t] # handle[t] /\ handle'[t].kind # "absent" =>
        /\ handle[t] = Pending
        /\ handle'[t] = Outcome(t)
        /\ \E w \in WorkerIds : wpc[w] = "run" /\ task[w] = t

C10_OneShotPaired ==
    /\ [](\A t \in TaskIds :
            /\ Ready(t) => handle[t] = Outcome(t)
            /\ got[t] # NotGot => got[t] = Outcome(t))
    /\ [][C10_HandleStep]_vars

\* Every worker the constructor started has left its run loop.
AllWorkersExited == \A w \in WorkerIds : w <= num_threads => wpc[w] = "exited"

\* C11: under fair scheduling, with task bodies that terminate, once
\* teardown has started every worker terminates and teardown returns; when
\* the workers are joined none of them is left blocked in the wait, also in
\* a pool on which nothing was ever submitted.
C11_ShutdownTerminates ==
    /\ (dpc # "alive") ~> (TeardownReturned /\ AllWorkersExited)
    /\ [](Stopped => AllWorkersExited)

\* A pool of two workers on which nothing was submitted has been torn down.
C11_Witness ==
    /\ TeardownReturned
    /\ num_threads = 2
    /\ joined = 2
    /\ \A t \in TaskIds : spc[t] = "idle"

\* C12: a pool with zero workers never exists, so no submit is accepted by
\* a pool that has no worker to run the task.
C12_NoZeroWorkerPool ==
    /\ num_threads >= 1
    /\ \A t \in TaskIds : Accepted(t) => num_threads >= 1

\* The lifecycle of the pool.
PoolState ==
    IF Stopped THEN "Stopped" ELSE IF stop THEN "ShuttingDown" ELSE "Active"

C13_LifecycleStep ==
    /\ stop => stop'
    /\ PoolState' # PoolState =>
         \/ PoolState = "Active" /\ PoolState' = "ShuttingDown"
         \/ PoolState = "ShuttingDown" /\ PoolState' = "Stopped"
    /\ enqOrder' # enqOrder => PoolState = "Active"

\* C13: the pool goes Active -> ShuttingDown -> Stopped and no other way:
\* stop starts false, only changes from false to true, submissions are
\* enqueued only in Active, and Stopped is entered only when every worker
\* has terminated.
C13_Lifecycle ==
    /\ stop = FALSE
    /\ [][C13_LifecycleStep]_vars
    /\ [](Stopped => stop /\ AllWorkersExited /\ joined = num_threads)
    /\ [](\A t \in TaskIds : Accepted(t) => Occurrences(enqOrder, t) = 1)

\* A pool of two workers that ran a task is Stopped after a submit was
\* rejected while it was shutting down.
C13_Witness ==
    /\ PoolState = "Stopped"
    /\ num_threads = 2
    /\ \E t \in TaskIds : Finished(t)
    /\ \E t \in TaskIds : Rejected(t)

\* C14: a worker inside a task body does not hold queue_mutex, so a long
\* task blocks neither submit nor the other workers: whoever wants the
\* lock while a task runs finds it free or held by some other thread that
\* is inside its short critical section.
C14_RunsOutsideLock ==
    \A w \in WorkerIds :
      wpc[w] = "run" =>
        /\ queue_mutex # WorkerThread(w)
        /\ queue_mutex # NoThread =>
             \/ \E v \in WorkerIds : v # w /\ wpc[v] = "wait"
                                     /\ queue_mutex = WorkerThread(v)
             \/ \E t \in TaskIds : spc[t] = "check"
                                   /\ queue_mutex = SubmitThread(t)
             \/ dpc = "set_stop" /\ queue_mutex = DtorThread

\* While one worker is still inside the first task, the second task has
\* been submitted, popped by the other worker and finished.
C14_Witness ==
    /\ num_threads = 2
    /\ Running(1)
    /\ Finished(2)

\* The threads that are inside a critical section of queue_mutex: between
\* taking the lock and the end of the block that holds it.
InCriticalSection ==
    {WorkerThread(w) : w \in {v \in WorkerIds : wpc[v] = "wait"}}
      \cup {SubmitThread(t) : t \in {u \in TaskIds : spc[u] = "check"}}
      \cup (IF dpc = "set_stop" THEN {DtorThread} ELSE {})

\* The step that ends the life of the members, after every join.
MembersDestroyed == dpc = "joined" /\ dpc' = "destroyed"

C15_AccessStep ==
    (tasks' # tasks \/ stop' # stop) /\ ~MembersDestroyed =>
      /\ queue_mutex # NoThread
      /\ InCriticalSection = {queue_mutex}
      /\ queue_mutex' = NoThread

\* C15: the queue and the flag are read and written only by the thread that
\* holds queue_mutex, and one thread at most holds it: the threads at the
\* places of submit, of the worker loop and of the destructor that test or
\* change `tasks` or `stop` are exactly the owner of the lock.
C15_LockDiscipline ==
    /\ [](Cardinality(InCriticalSection) <= 1)
    /\ [](InCriticalSection = IF queue_mutex = NoThread THEN {} ELSE {queue_mutex})
    /\ [][C15_AccessStep]_vars

\* A submitter holds the lock while one worker waits for it and the other
\* one runs a task.
C15_Witness ==
    /\ \E t \in TaskIds : queue_mutex = SubmitThread(t)
    /\ \E w \in WorkerIds : wpc[w] = "lock"
    /\ \E w \in WorkerIds : wpc[w] = "run"

\* The workers a step takes out of the blocked wait.
Woken == {w \in WorkerIds : wpc[w] = "blocked" /\ wpc'[w] # "blocked"}

C16_SubmitStep ==
    /\ enqOrder' # enqOrder =>
         \E t \in TaskIds :
           /\ queue_mutex = SubmitThread(t)
           /\ tasks' = Append(tasks, t)
           /\ enqOrder' = Append(enqOrder, t)
           /\ notified' = notified
           /\ Woken = {}
    /\ notified' # notified =>
         \E t \in TaskIds :
           /\ spc[t] = "notify"
           /\ InQueue(t) \/ Occurrences(deqOrder, t) = 1
           /\ notified' = [notified EXCEPT ![t] = 1]
           /\ Cardinality(Woken) <= 1
           /\ Woken = {} => Waiters = {}
           /\ \A w \in WorkerIds : w \notin Woken => wpc'[w] = wpc[w]

\* C16: a successful submit appends exactly one task at the tail of the
\* queue, holding the lock, and afterwards issues exactly one notify_one,
\* which wakes one waiter and never more; a rejected submit issues none.
C16_OneSignalPerSubmit ==
    /\ [][C16_SubmitStep]_vars
    /\ [](\A t \in TaskIds :
            /\ notified[t] <= 1
            /\ Returned(t) <=> notified[t] = 1
            /\ Accepted(t) => Occurrences(enqOrder, t) = 1
            /\ Rejected(t) => notified[t] = 0 /\ Occurrences(enqOrder, t) = 0)

\* Both workers were waiting; the signal of the first submit woke one and
\* left the other one blocked.
C16_Witness ==
    /\ num_threads = 2
    /\ Returned(1)
    /\ tasks = <<1>>
    /\ spc[2] = "idle"
    /\ \E w, v \in WorkerIds : wpc[w] = "relock" /\ wpc[v] = "blocked"

\* The workers that enter the blocked wait in a step.
Blocking == {w \in WorkerIds : wpc[w] # "blocked" /\ wpc'[w] = "blocked"}

C17_TeardownStep ==
    /\ stop' # stop =>
         dpc = "set_stop" /\ queue_mutex = DtorThread /\ dpc' = "notify_all"
    /\ dpc = "notify_all" /\ dpc' # dpc =>
         /\ dpc' = "join"
         /\ Woken = Waiters
         /\ \A w \in WorkerIds : wpc'[w] # "blocked"
    /\ joined' # joined => dpc = "join" /\ stop
    /\ Blocking # {} => ~stop

\* C17: teardown sets stop holding the lock, then broadcasts, then joins;
\* from the broadcast on no worker is blocked in the wait, and no worker
\* enters the wait while stop is set, so a worker only leaves its loop
\* having seen the flag.
C17_TeardownOrder ==
    /\ [][C17_TeardownStep]_vars
    /\ [](dpc \in {"join", "joined", "destroyed"} =>
            stop /\ \A w \in WorkerIds : wpc[w] # "blocked")
    /\ [](\A w \in WorkerIds : wpc[w] = "exited" => stop)

\* Both workers of an idle pool were waiting and the broadcast has woken
\* them; none is joined yet.
C17_Witness ==
    /\ dpc = "join"
    /\ joined = 0
    /\ num_threads = 2
    /\ \A w \in WorkerIds : wpc[w] = "relock"
    /\ \A t \in TaskIds : spc[t] = "idle"

\* C18, as stated: a rejected submit never creates the handle; no shared
\* state exists for that submission at any point of the rejected call.
C18_HandleNeverCreated ==
    \A t \in TaskIds :
      (spc[t] = "check" /\ stop) \/ Rejected(t) => handle[t] = Absent

\* C18, amended: submit creates the packaged_task and its future before it
\* tests stop; in a rejected call they exist, pending and in nobody else's
\* hands, until the throw destroys them: after the call no handle is left,
\* none reached the caller, and the task was never enqueued or invoked.
C18_HandleDiesWithCall ==
    \A t \in TaskIds :
      /\ spc[t] = "check" =>
           handle[t] = Pending /\ ~InQueue(t) /\ got[t] = NotGot
      /\ Rejected(t) =>
           /\ handle[t] = Absent
           /\ got[t] = NotGot
           /\ ~InQueue(t)
           /\ runs[t] = 0

\* A submit was rejected between the setting of the flag and the broadcast.
C18_Witness ==
    /\ dpc = "notify_all"
    /\ \E t \in TaskIds : Rejected(t) /\ handle[t] = Absent

\* The workers that have not left their run loop.
LiveWorkers == {w \in WorkerIds : w <= num_threads /\ wpc[w] # "exited"}

\* A notify_one or the notify_all is still to be issued for something
\* already done to the queue or the flag.
NotificationPending ==
    \/ \E t \in TaskIds : spc[t] = "notify"
    \/ dpc = "notify_all"

\* Work or the flag is there, every live worker sleeps, nobody will signal.
LostWakeup ==
    /\ tasks # <<>> \/ stop
    /\ LiveWorkers # {}
    /\ \A w \in LiveWorkers : wpc[w] = "blocked"
    /\ ~NotificationPending

C19_BlockStep ==
    \A w \in Blocking :
      queue_mutex = WorkerThread(w) /\ tasks = <<>> /\ ~stop

\* C19: no wake-up is lost: in no reachable state is the queue non-empty
\* or stop set while every live worker is blocked in the wait and no
\* notification is pending; a worker enters the wait only when, holding
\* the lock, it finds the queue empty and stop false.
C19_NoLostWakeup ==
    /\ []~LostWakeup
    /\ [][C19_BlockStep]_vars

\* Both workers sleep while a task is already in the queue and its
\* notify_one is still to come.
C19_Witness ==
    /\ num_threads = 2
    /\ \A w \in WorkerIds : wpc[w] = "blocked"
    /\ tasks # <<>>
    /\ NotificationPending

\* ------------------------------------------------------------------ producer/consumer program
\* Packets pushed so far: ++i follows the notify_one of packet i.
Pushed == IF ppc = "notify" THEN pi + 1 ELSE pi

\* The packets 0 .. n-1 in push order.
PushOrder(n) == [k \in 1..n |-> k - 1]

RECURSIVE ConsumedUpTo(_)
ConsumedUpTo(n) == IF n = 0 THEN 0 ELSE consumed[n] + ConsumedUpTo(n - 1)

\* Packets the consumers have processed, all consumers together.
Processed == ConsumedUpTo(NumConsumers)

\* Consumers holding a popped packet they have not processed yet.
Processing == {c \in ConsumerIds : cpc[c] = "process"}

ConsumersExited == \A c \in ConsumerIds : cpc[c] = "exited"

CpAllTerminated == ppc = "done" /\ ConsumersExited

\* The packets popped followed by the packets still queued are the packets
\* pushed, in push order and each once; a popped packet is in the hands of
\* one consumer or has been processed.
PoppedOnceInPushOrder ==
    /\ popOrder \o data_queue = PushOrder(Pushed)
    /\ Processed + Cardinality(Processing) = Len(popOrder)
    /\ \A c \in Processing : data[c] \in 0..(Len(popOrder) - 1)
    /\ \A c, d \in Processing : c # d => data[c] # data[d]

\* A consumer leaves its loop only from under mtx, seeing the queue empty
\* and finished set.
C20_ExitStep ==
    \A c \in ConsumerIds :
        (cpc[c] # "exited" /\ cpc'[c] = "exited") =>
            /\ mtx = ConsumerThread(c)
            /\ data_queue = <<>>
            /\ finished

\* C20: in the producer/consumer program every packet pushed is popped by
\* exactly one consumer exactly once, in push order; a consumer exits only
\* when it sees, holding mtx, the queue empty and finished set; under fair
\* scheduling both consumers eventually exit; and when the three threads
\* have terminated the queue is empty and all 5 packets were processed.
C20_ProducerConsumer ==
    /\ []PoppedOnceInPushOrder
    /\ [][C20_ExitStep]_cpVars
    /\ <>ConsumersExited
    /\ [](CpAllTerminated =>
             /\ data_queue = <<>>
             /\ popOrder = PushOrder(NumItems)
             /\ Processed = NumItems)

\* The three threads have terminated and each consumer processed a packet.
C20_Witness ==
    /\ CpAllTerminated
    /\ \A c \in ConsumerIds : consumed[c] >= 1

\* ------------------------------------------------------------------ pools with workers
\* What C2, C4, C5, C9 and C10 state does hold of every pool that has at
\* least one worker; the only runs that break them are those of a pool
\* constructed with num_threads = 0.
DrainsWithWorkers == num_threads >= 1 => C2_ShutdownDrains
NoDropWithWorkers == num_threads >= 1 => C4_NoDropOnRace
RunsWithWorkers ==
    \A t \in TaskIds : (num_threads >= 1 /\ Accepted(t)) ~> Finished(t)
GetWithWorkers == num_threads >= 1 => C9_GetAfterCompletion
OneShotWithWorkers ==
    /\ [](num_threads >= 1 =>
            \A t \in TaskIds :
              /\ Ready(t) => handle[t] = Outcome(t)
              /\ got[t] # NotGot => got[t] = Outcome(t))
    /\ [][num_threads >= 1 => C10_HandleStep]_vars

====
